---- MODULE Spec2Model ----
(***************************************************************************)
(* Request Authorization & Browser-Session Gateway (server.js).            *)
(*                                                                         *)
(* The module holds five state machines over one set of variables:         *)
(*   SpecURL       validateURL applied to bounded URL strings              *)
(*   SpecSig       verifyRequestSignature applied to bounded header values *)
(*   SpecAuth      the middleware chain cors -> authenticateRequest ->     *)
(*                 route                                                   *)
(*   Spec          concurrent /scrape handlers sharing browserInstance     *)
(*   SpecShutdown  Spec with termination signals and gracefulShutdown      *)
(* JavaScript strings are TLA+ strings; indices are 1-based here, 0-based  *)
(* in the source.                                                          *)
(***************************************************************************)
EXTENDS Integers, Sequences, FiniteSets, TLC

(***************************************************************************)
(* String primitives of the JavaScript runtime.                            *)
(***************************************************************************)

\* String.prototype.startsWith
StartsWith(s, p) == Len(p) <= Len(s) /\ SubSeq(s, 1, Len(p)) = p

\* String.prototype.includes
Includes(s, p) ==
    \E i \in 1..(Len(s) - Len(p) + 1) : SubSeq(s, i, i + Len(p) - 1) = p

\* String.prototype.indexOf, 1-based; 0 when p does not occur
IndexOf(s, p) ==
    LET I == {i \in 1..(Len(s) - Len(p) + 1) : SubSeq(s, i, i + Len(p) - 1) = p}
    IN  IF I = {} THEN 0 ELSE CHOOSE i \in I : \A j \in I : i <= j

\* the text after the first occurrence of p (the whole of s when there is none)
After(s, p) ==
    IF IndexOf(s, p) = 0 THEN s
    ELSE SubSeq(s, IndexOf(s, p) + Len(p), Len(s))

\* the text before the first occurrence of p (the whole of s when there is none)
Before(s, p) ==
    IF IndexOf(s, p) = 0 THEN s ELSE SubSeq(s, 1, IndexOf(s, p) - 1)

LowerChar(c) ==
    CASE c = "A" -> "a" [] c = "B" -> "b" [] c = "C" -> "c" [] c = "D" -> "d"
      [] c = "E" -> "e" [] c = "F" -> "f" [] c = "G" -> "g" [] c = "H" -> "h"
      [] c = "I" -> "i" [] c = "J" -> "j" [] c = "K" -> "k" [] c = "L" -> "l"
      [] c = "M" -> "m" [] c = "N" -> "n" [] c = "O" -> "o" [] c = "P" -> "p"
      [] c = "Q" -> "q" [] c = "R" -> "r" [] c = "S" -> "s" [] c = "T" -> "t"
      [] c = "U" -> "u" [] c = "V" -> "v" [] c = "W" -> "w" [] c = "X" -> "x"
      [] c = "Y" -> "y" [] c = "Z" -> "z" [] OTHER -> c

\* String.prototype.toLowerCase
RECURSIVE ToLowerCase(_)
ToLowerCase(s) ==
    IF Len(s) = 0 THEN ""
    ELSE LowerChar(SubSeq(s, 1, 1)) \o ToLowerCase(SubSeq(s, 2, Len(s)))

DigitChars == <<"0", "1", "2", "3", "4", "5", "6", "7", "8", "9">>

IsDigit(c) == \E i \in 1..10 : DigitChars[i] = c

DigitValue(c) == (CHOOSE i \in 1..10 : DigitChars[i] = c) - 1

AllDigits(s) == Len(s) > 0 /\ \A i \in 1..Len(s) : IsDigit(SubSeq(s, i, i))

\* the value of a decimal numeral
RECURSIVE StrToNat(_)
StrToNat(s) ==
    IF Len(s) = 0 THEN 0
    ELSE 10 * StrToNat(SubSeq(s, 1, Len(s) - 1)) + DigitValue(SubSeq(s, Len(s), Len(s)))

\* the decimal numeral of a natural number
RECURSIVE NatToStr(_)
NatToStr(n) ==
    IF n < 10 THEN DigitChars[n + 1]
    ELSE NatToStr(n \div 10) \o DigitChars[(n % 10) + 1]

(***************************************************************************)
(* URLValidator: new URL(urlString) followed by the checks of validateURL. *)
(***************************************************************************)

\* faulty variant: ftp: is let through the protocol check
ALLOWED_PROTOCOLS_WithFtp == {"http:", "https:", "ftp:"}

ALLOWED_PROTOCOLS == {"http:", "https:"}

BLOCKED_HOSTS ==
    << "localhost", "127.0.0.1", "0.0.0.0", "::1", "metadata.google.internal",
       "169.254.169.254", "172.16.0.0/12", "10.0.0.0/8", "192.168.0.0/16" >>

\* the schemes the URL parser gives an authority and a default path "/"
SpecialSchemes == {"http", "https", "ftp", "ws", "wss", "file"}

\* the dot-separated labels of a host
RECURSIVE Labels(_)
Labels(h) ==
    IF IndexOf(h, ".") = 0 THEN <<h>>
    ELSE <<Before(h, ".")>> \o Labels(After(h, "."))

\* 256^k
RECURSIVE Pow256(_)
Pow256(k) == IF k = 0 THEN 1 ELSE 256 * Pow256(k - 1)

\* the number of base-256 digits of v
RECURSIVE NumBytes(_)
NumBytes(v) == IF v < 256 THEN 1 ELSE 1 + NumBytes(v \div 256)

\* the host parser's IPv4 branch: a host whose last label is a decimal number
\* is an IPv4 address; every part but the last is one byte and the last part
\* fills the remaining bytes.  The result is the serialised dotted quad, or ""
\* when the address is not valid.
ParseIPv4(h) ==
    LET parts == Labels(h)
        n     == Len(parts)
    IN  IF n > 4 \/ \E i \in 1..n : ~AllDigits(parts[i]) THEN ""
        ELSE IF \E i \in 1..(n - 1) : StrToNat(parts[i]) > 255 THEN ""
        ELSE IF NumBytes(StrToNat(parts[n])) > 5 - n THEN ""
        ELSE LET last     == StrToNat(parts[n])
                 octet(j) == IF j < n THEN StrToNat(parts[j])
                             ELSE (last \div Pow256(4 - j)) % 256
             IN  NatToStr(octet(1)) \o "." \o NatToStr(octet(2)) \o "." \o
                 NatToStr(octet(3)) \o "." \o NatToStr(octet(4))

\* the host parser: "" stands for failure
ParseHost(h) ==
    IF Len(h) = 0 THEN ""
    ELSE IF SubSeq(h, 1, 1) = "[" THEN
        (IF SubSeq(h, Len(h), Len(h)) = "]" /\ Len(h) > 2 THEN ToLowerCase(h) ELSE "")
    ELSE IF AllDigits(Labels(h)[Len(Labels(h))]) THEN ParseIPv4(h)
    ELSE ToLowerCase(h)

\* the end of the authority: the first of "/", "?", "#"
AuthorityEnd(s) ==
    LET I == {i \in 1..Len(s) : SubSeq(s, i, i) \in {"/", "?", "#"}}
    IN  IF I = {} THEN Len(s) + 1 ELSE CHOOSE i \in I : \A j \in I : i <= j

RECURSIVE SkipSlashes(_)
SkipSlashes(s) ==
    IF Len(s) > 0 /\ SubSeq(s, 1, 1) = "/" THEN SkipSlashes(SubSeq(s, 2, Len(s)))
    ELSE s

\* host and port of an authority: a bracketed host ends at "]", any other at
\* the first ":"
AuthorityHost(a) ==
    IF Len(a) > 0 /\ SubSeq(a, 1, 1) = "[" /\ IndexOf(a, "]") > 0
    THEN SubSeq(a, 1, IndexOf(a, "]"))
    ELSE Before(a, ":")

AuthorityPort(a) ==
    LET rest == SubSeq(a, Len(AuthorityHost(a)) + 1, Len(a))
    IN  IF Len(rest) = 0 THEN "" ELSE SubSeq(rest, 2, Len(rest))

\* new URL(urlString): [ok, protocol, hostname, href]
ParseURL(s) ==
    LET k      == IndexOf(s, ":")
        failed == [ok |-> FALSE, protocol |-> "", hostname |-> "", href |-> ""]
    IN  IF k <= 1 THEN failed
        ELSE
        LET scheme == ToLowerCase(SubSeq(s, 1, k - 1))
            rest   == SubSeq(s, k + 1, Len(s))
        IN  IF scheme \notin SpecialSchemes
            THEN [ok |-> TRUE, protocol |-> scheme \o ":", hostname |-> "",
                  href |-> scheme \o ":" \o rest]
            ELSE
            LET after == SkipSlashes(rest)
                e     == AuthorityEnd(after)
                auth  == SubSeq(after, 1, e - 1)
                tail  == SubSeq(after, e, Len(after))
                host  == ParseHost(AuthorityHost(auth))
                port  == AuthorityPort(auth)
                path  == IF Len(tail) = 0 \/ SubSeq(tail, 1, 1) # "/"
                         THEN "/" \o tail ELSE tail
            IN  IF host = "" \/ (Len(port) > 0 /\ ~AllDigits(port)) THEN failed
                ELSE [ok |-> TRUE, protocol |-> scheme \o ":", hostname |-> host,
                      href |-> scheme \o "://" \o host \o
                               (IF Len(port) > 0 THEN ":" \o port ELSE "") \o path]

\* faulty variant: the blocked-host loop compares for equality only
HostBlocked_EqualityOnly(hostname) ==
    \E i \in 1..Len(BLOCKED_HOSTS) : hostname = BLOCKED_HOSTS[i]

\* the loop over BLOCKED_HOSTS
HostBlocked(hostname) ==
    \E i \in 1..Len(BLOCKED_HOSTS) :
        hostname = BLOCKED_HOSTS[i] \/ Includes(hostname, BLOCKED_HOSTS[i])

\* faulty variant: the regex misses the 172.16-31 alternative
PrivateRangeMatch_No172(hostname) ==
    StartsWith(hostname, "10.") \/ StartsWith(hostname, "192.168.")

\* /^(10\.|172\.(1[6-9]|2[0-9]|3[01])\.|192\.168\.)/
PrivateRangeMatch(hostname) ==
    \/ StartsWith(hostname, "10.")
    \/ \E b \in 16..31 : StartsWith(hostname, "172." \o NatToStr(b) \o ".")
    \/ StartsWith(hostname, "192.168.")

\* validateURL: the URL it returns, or the kind of the error it throws
validateURL(urlString) ==
    LET url      == ParseURL(urlString)
        hostname == ToLowerCase(url.hostname)
        reject(k) == [kind |-> k, protocol |-> "", hostname |-> "", href |-> ""]
    IN  IF ~url.ok THEN reject("InvalidFormat")
        ELSE IF url.protocol \notin ALLOWED_PROTOCOLS THEN reject("DisallowedProtocol")
        ELSE IF HostBlocked(hostname) THEN reject("BlockedHost")
        ELSE IF PrivateRangeMatch(hostname) THEN reject("PrivateIPRange")
        ELSE [kind |-> "Accepted", protocol |-> url.protocol,
              hostname |-> url.hostname, href |-> url.href]

(***************************************************************************)
(* Request signing: verifyRequestSignature.                                *)
(***************************************************************************)

SERVER_SECRET == "your-server-secret-key-2024"

fiveMinutes == 5 * 60 * 1000

\* the longest prefix of s made of decimal digits
RECURSIVE DigitPrefix(_)
DigitPrefix(s) ==
    IF Len(s) > 0 /\ IsDigit(SubSeq(s, 1, 1))
    THEN SubSeq(s, 1, 1) \o DigitPrefix(SubSeq(s, 2, Len(s)))
    ELSE ""

\* parseInt(s): the number its leading digits (after an optional sign) spell,
\* NaN when there are none
ParseInt(s) ==
    LET neg    == Len(s) > 0 /\ SubSeq(s, 1, 1) = "-"
        body   == IF Len(s) > 0 /\ SubSeq(s, 1, 1) \in {"-", "+"}
                  THEN SubSeq(s, 2, Len(s)) ELSE s
        digits == DigitPrefix(body)
    IN  IF digits = "" THEN [nan |-> TRUE, v |-> 0]
        ELSE [nan |-> FALSE, v |-> IF neg THEN 0 - StrToNat(digits) ELSE StrToNat(digits)]

\* Math.abs
Abs(x) == IF x < 0 THEN 0 - x ELSE x

\* crypto.createHmac("sha256", key).update(message).digest("hex"), taken as an
\* injective function of key and message
HmacSha256Hex(key, message) == "hmac[" \o key \o "][" \o message \o "]"

\* faulty variant: only stale timestamps are outside the window, future ones never
OutsideWindow_PastOnly(currentTime, requestTime) ==
    ~requestTime.nan /\ currentTime - requestTime.v > fiveMinutes

\* Math.abs(currentTime - requestTime) > fiveMinutes; a comparison with NaN
\* is false
OutsideWindow(currentTime, requestTime) ==
    ~requestTime.nan /\ Abs(currentTime - requestTime.v) > fiveMinutes

\* faulty variant: the nonce is left out of the signed message
SignedMessage_NoNonce(timestamp, nonce, extensionId) ==
    timestamp \o ":" \o extensionId

\* `${timestamp}:${nonce}:${extensionId}`
SignedMessage(timestamp, nonce, extensionId) ==
    timestamp \o ":" \o nonce \o ":" \o extensionId

\* verifyRequestSignature, with Date.now() passed as currentTime
verifyRequestSignature(timestamp, nonce, signature, extensionId, currentTime) ==
    IF OutsideWindow(currentTime, ParseInt(timestamp)) THEN FALSE
    ELSE signature =
            HmacSha256Hex(SERVER_SECRET, SignedMessage(timestamp, nonce, extensionId))

(***************************************************************************)
(* RequestAuthenticator: the cors origin callback and authenticateRequest. *)
(* An absent header is the empty string: both are falsy, and neither is a  *)
(* member of an allowlist.                                                 *)
(***************************************************************************)

ALLOWED_ORIGINS == {"https://us-central1-clicksafe-374816.cloudfunctions.net"}

ALLOWED_IPS == {"176.136.146.11"}

ALLOWED_EXTENSION_IDS == {"ojgppiocgnfkdafnikkiliekbmmagome"}

ExtensionScheme == "chrome-extension://"

\* String.prototype.replace(p, r) with a string pattern: the first occurrence
ReplaceFirst(s, p, r) ==
    IF IndexOf(s, p) = 0 THEN s ELSE Before(s, p) \o r \o After(s, p)

\* faulty variant: the text after the scheme is not cut at the first "/"
ExtensionIdOf_NoSplit(origin) == ReplaceFirst(origin, ExtensionScheme, "")

\* origin.replace("chrome-extension://", "").split("/")[0]
ExtensionIdOf(origin) == Before(ReplaceFirst(origin, ExtensionScheme, ""), "/")

\* origin && origin.startsWith("chrome-extension://")
IsChromeExtension(origin) == origin # "" /\ StartsWith(origin, ExtensionScheme)

\* h && ALLOWED_ORIGINS.some((allowedOrigin) => h.startsWith(allowedOrigin))
MatchesAllowedOrigin(h) ==
    h # "" /\ \E allowedOrigin \in ALLOWED_ORIGINS : StartsWith(h, allowedOrigin)

\* ALLOWED_IPS.includes(clientIP) || ALLOWED_IPS.includes(realIP) ||
\* (forwardedFor && ALLOWED_IPS.some((ip) => forwardedFor.includes(ip)))
IsFromAllowedIP(r) ==
    \/ r.clientIP \in ALLOWED_IPS
    \/ r.realIP \in ALLOWED_IPS
    \/ r.forwardedFor # "" /\ \E ip \in ALLOWED_IPS : Includes(r.forwardedFor, ip)

\* faulty variant: an allowed extension is valid whatever its signature is
IsValidChromeExtension_IgnoresSignature(r, currentTime) ==
    IF ~IsChromeExtension(r.origin) THEN FALSE
    ELSE ExtensionIdOf(r.origin) \in ALLOWED_EXTENSION_IDS \/ IsFromAllowedIP(r)

\* the chrome-extension branch reaches its call of verifyRequestSignature
VerifiesSignature(r) ==
    /\ IsChromeExtension(r.origin)
    /\ ExtensionIdOf(r.origin) \in ALLOWED_EXTENSION_IDS \/ IsFromAllowedIP(r)
    /\ r.timestamp # "" /\ r.nonce # "" /\ r.signature # ""

\* the chrome-extension branch: isValidChromeExtension
IsValidChromeExtension(r, currentTime) ==
    IF ~IsChromeExtension(r.origin) THEN FALSE
    ELSE LET extensionId        == ExtensionIdOf(r.origin)
             isAllowedExtension == extensionId \in ALLOWED_EXTENSION_IDS
             isFromAllowedDevIP == IsFromAllowedIP(r)
         IN  IF ~(isAllowedExtension \/ isFromAllowedDevIP) THEN FALSE
             ELSE IF r.timestamp # "" /\ r.nonce # "" /\ r.signature # ""
                  THEN verifyRequestSignature(r.timestamp, r.nonce, r.signature,
                                              extensionId, currentTime)
                  ELSE TRUE

\* userAgent && userAgent.includes("Google-Cloud-Functions")
IsGoogleCloudFunction(r) ==
    r.userAgent # "" /\ Includes(r.userAgent, "Google-Cloud-Functions")

\* forwardedFor && (forwardedFor.includes("169.254.") || forwardedFor.includes("10."))
IsFromGoogleCloud(r) ==
    r.forwardedFor # "" /\
        (Includes(r.forwardedFor, "169.254.") \/ Includes(r.forwardedFor, "10."))

\* the condition of the deny branch, negated: some authentication method passed
AnyMethodPasses(r, currentTime) ==
    \/ IsValidChromeExtension(r, currentTime)
    \/ MatchesAllowedOrigin(r.origin)
    \/ MatchesAllowedOrigin(r.referer)
    \/ IsFromAllowedIP(r)
    \/ IsGoogleCloudFunction(r)
    \/ IsFromGoogleCloud(r)

\* req.path === "/health" || req.path === "/"
SkipsAuthentication(r) == r.path = "/health" \/ r.path = "/"

ExtensionHint == "Chrome extension ID not recognized or request not properly signed."

OriginHint == "Invalid origin or IP address."

\* the hint of the 403 body
DenyHint(r) == IF IsChromeExtension(r.origin) THEN ExtensionHint ELSE OriginHint

\* isValidChromeExtension ? "Chrome Extension"
\*   : origin || referer || clientIP || realIP || "Google Cloud Function"
AuthSource(r, currentTime) ==
    IF IsValidChromeExtension(r, currentTime) THEN "Chrome Extension"
    ELSE IF r.origin # "" THEN r.origin
    ELSE IF r.referer # "" THEN r.referer
    ELSE IF r.clientIP # "" THEN r.clientIP
    ELSE IF r.realIP # "" THEN r.realIP
    ELSE "Google Cloud Function"

\* the origin callback given to cors: TRUE when it calls callback(null, true),
\* FALSE when it calls callback(new Error("Not allowed by CORS"))
CorsAllows(origin) ==
    \/ origin = ""
    \/ StartsWith(origin, ExtensionScheme)
    \/ \E allowedOrigin \in ALLOWED_ORIGINS : StartsWith(origin, allowedOrigin)

(***************************************************************************)
(* The same middleware as functions of the configuration: SERVER_SECRET    *)
(* and the three allowlists are what one deployment differs in from        *)
(* another (two of them are read from the environment).                    *)
(***************************************************************************)

\* the configuration of the source as it stands
DeployedConfig ==
    [secret |-> SERVER_SECRET, extensionIds |-> ALLOWED_EXTENSION_IDS,
     origins |-> ALLOWED_ORIGINS, ips |-> ALLOWED_IPS]

\* h && ALLOWED_ORIGINS.some((allowedOrigin) => h.startsWith(allowedOrigin))
MatchesAllowedOriginIn(cfg, h) ==
    h # "" /\ \E allowedOrigin \in cfg.origins : StartsWith(h, allowedOrigin)

\* ALLOWED_IPS.includes(clientIP) || ALLOWED_IPS.includes(realIP) ||
\* (forwardedFor && ALLOWED_IPS.some((ip) => forwardedFor.includes(ip)))
IsFromAllowedIPIn(cfg, r) ==
    \/ r.clientIP \in cfg.ips
    \/ r.realIP \in cfg.ips
    \/ r.forwardedFor # "" /\ \E ip \in cfg.ips : Includes(r.forwardedFor, ip)

\* verifyRequestSignature under the secret of cfg
VerifyRequestSignatureIn(cfg, timestamp, nonce, signature, extensionId, currentTime) ==
    IF OutsideWindow(currentTime, ParseInt(timestamp)) THEN FALSE
    ELSE signature =
            HmacSha256Hex(cfg.secret, SignedMessage(timestamp, nonce, extensionId))

\* the chrome-extension branch: isValidChromeExtension
IsValidChromeExtensionIn(cfg, r, currentTime) ==
    IF ~IsChromeExtension(r.origin) THEN FALSE
    ELSE LET extensionId        == ExtensionIdOf(r.origin)
             isAllowedExtension == extensionId \in cfg.extensionIds
             isFromAllowedDevIP == IsFromAllowedIPIn(cfg, r)
         IN  IF ~(isAllowedExtension \/ isFromAllowedDevIP) THEN FALSE
             ELSE IF r.timestamp # "" /\ r.nonce # "" /\ r.signature # ""
                  THEN VerifyRequestSignatureIn(cfg, r.timestamp, r.nonce, r.signature,
                                                extensionId, currentTime)
                  ELSE TRUE

\* the condition of the deny branch, negated
AnyMethodPassesIn(cfg, r, currentTime) ==
    \/ IsValidChromeExtensionIn(cfg, r, currentTime)
    \/ MatchesAllowedOriginIn(cfg, r.origin)
    \/ MatchesAllowedOriginIn(cfg, r.referer)
    \/ IsFromAllowedIPIn(cfg, r)
    \/ IsGoogleCloudFunction(r)
    \/ IsFromGoogleCloud(r)

\* the origin callback given to cors
CorsAllowsIn(cfg, origin) ==
    \/ origin = ""
    \/ StartsWith(origin, ExtensionScheme)
    \/ \E allowedOrigin \in cfg.origins : StartsWith(origin, allowedOrigin)

\* the body of a response that sets none of its fields
EmptyBody ==
    [status |-> 0, error |-> "", message |-> "", hint |-> "", origin |-> "",
     extensionId |-> "", isAllowed |-> FALSE]

\* faulty variant: the hint tells an unknown extension ID from a bad signature
DenialIn_NamesCause(cfg, r) ==
    [EmptyBody EXCEPT
        !.status = 403,
        !.error = "Forbidden: Unauthorized access",
        !.message = "This service only accepts requests from authorized sources.",
        !.hint = IF ~IsChromeExtension(r.origin) THEN OriginHint
                 ELSE IF ExtensionIdOf(r.origin) \in cfg.extensionIds
                 THEN "Request not properly signed."
                 ELSE "Chrome extension ID not recognized."]

\* res.status(403).json({error, message, hint}) of authenticateRequest
DenialIn(cfg, r) ==
    [EmptyBody EXCEPT
        !.status = 403,
        !.error = "Forbidden: Unauthorized access",
        !.message = "This service only accepts requests from authorized sources.",
        !.hint = DenyHint(r)]

\* res.status(403).json({error: "CORS Error", message, origin}) of the error
\* middleware
CorsDenial(r) ==
    [EmptyBody EXCEPT
        !.status = 403,
        !.error = "CORS Error",
        !.message = "This origin is not allowed. Chrome extensions must include X-API-Key header.",
        !.origin = r.origin]

\* the request through cors, the error middleware and authenticateRequest of
\* the server configured by cfg: denied with a body, or handed to the routes
ReplyIn(cfg, r, currentTime) ==
    IF ~CorsAllowsIn(cfg, r.origin) THEN [at |-> "done", res |-> CorsDenial(r)]
    ELSE IF SkipsAuthentication(r) \/ AnyMethodPassesIn(cfg, r, currentTime)
    THEN [at |-> "route", res |-> EmptyBody]
    ELSE [at |-> "done", res |-> DenialIn(cfg, r)]

(***************************************************************************)
(* ResultPolicy: the checks of the /scrape handler on the extracted text.  *)
(* A text is its leading characters s followed by pad filler characters    *)
(* that take no part in any match.                                         *)
(***************************************************************************)

MinContentLength == 10000

\* textContent.length
TextLength(t) == Len(t.s) + t.pad

\* !textContent
IsEmptyText(t) == TextLength(t) = 0

\* /cloudflare|CLOUDFLARE|Cloudflare/.test(textContent)
IsCloudflareProtected(t) ==
    Includes(t.s, "cloudflare") \/ Includes(t.s, "CLOUDFLARE") \/ Includes(t.s, "Cloudflare")

\* faulty variant: a text of exactly the minimum length is too short
PolicyStatus_OffByOne(t) ==
    IF IsCloudflareProtected(t) THEN 406
    ELSE IF TextLength(t) <= MinContentLength THEN 406
    ELSE 200

\* the status the handler answers with once the page is closed
PolicyStatus(t) ==
    IF IsCloudflareProtected(t) THEN 406
    ELSE IF TextLength(t) < MinContentLength THEN 406
    ELSE 200

\* req.body.url of the /scrape requests tried; "" is a body without url
ScrapeURLs ==
    { "", "http://169.254.169.254/", "ftp://example.com", "https://example.com/a?b=1" }

\* faulty variant: a body without url goes on to validation
URLMissing_Never(u) == FALSE

\* !url
URLMissing(u) == u = ""

\* faulty variant: the handler goes on with a URL that validation rejected
URLRejected_Never(u) == FALSE

\* validateURL(url) throws
URLRejected(u) == validateURL(u).kind # "Accepted"

(***************************************************************************)
(* State.                                                                  *)
(***************************************************************************)

VARIABLES
    urlInput,     \* SpecURL: the parts the URL string is built from
    urlResult,    \* SpecURL: what validateURL returned or threw for it
    now,          \* Date.now(), in milliseconds
    sigInput,     \* SpecSig: what the client signed and what it sent
    sigResult,    \* SpecSig: what verifyRequestSignature returned, and when
    req,          \* SpecAuth: the inbound request (path, method, headers, IP)
    stage,        \* SpecAuth: the middleware the request is at
    res,          \* SpecAuth: the response sent, status 0 while none is
    routed,       \* SpecAuth: the route handler that ran, "" while none did
    auth,         \* SpecAuth: what authenticateRequest computed and logged
    browserInstance, \* the module-level handle: 0 for null, else an engine
    engine,       \* per launch (named by the request that made it): its state
    pc,           \* per /scrape request: where its handler is suspended
    url,          \* per request: req.body.url ("" when missing)
    verdict,      \* per request: what validateURL made of it, "" while not called
    browser,      \* per request: the handle getBrowser returned, 0 while none
    page,         \* per request: its page: "undefined", "open" or "closed"
    closeCalls,   \* per request: invocations of page.close on its page
    gotoCalls,    \* per request: invocations of page.goto
    text,         \* per request: the text page.evaluate returned
    status,       \* per request: the status of the response sent, 0 while none
    sent,         \* per request: how many responses its handler has sent
    thrown,       \* per request: the step whose error reached the catch block
    exited,       \* process.exit has been called
    shutdown,     \* per signal delivered: where its gracefulShutdown call is
    browserCloseCalls, \* per engine: invocations of browserInstance.close on it
    deployments,  \* SpecConfig: the configurations of two deployments
    replies,      \* SpecConfig: what each deployment made of the request
    call          \* SpecPerRequest: per request, its route and req.body

urlVars == <<urlInput, urlResult>>

sigVars == <<sigInput, sigResult>>

authVars == <<req, stage, res, routed, auth>>

\* what the signal handlers add to the server's state
shutdownVars == <<exited, shutdown, browserCloseCalls>>

srvVars ==
    <<browserInstance, engine, pc, url, verdict, browser, page, closeCalls, gotoCalls, text,
      status, sent, thrown, shutdownVars>>

\* two deployments given the same request
configVars == <<deployments, replies>>

vars == <<urlVars, now, sigVars, authVars, srvVars, configVars, call>>

\* what the actions of one state machine leave alone
outsideURL == <<now, sigVars, authVars, srvVars, configVars, call>>

outsideSig == <<urlVars, authVars, srvVars, configVars, call>>

outsideAuth == <<urlVars, now, sigVars, srvVars, configVars, call>>

outsideSrv == <<urlVars, now, sigVars, authVars, configVars, call>>

outsideConfig == <<urlVars, now, sigVars, stage, res, routed, auth, srvVars, call>>

outsidePerRequest ==
    <<urlVars, now, sigVars, authVars, configVars, browserInstance, gotoCalls, exited,
      shutdown>>

(***************************************************************************)
(* SpecURL: validateURL applied to every URL string of a bounded set.      *)
(***************************************************************************)

\* octets of the IPv4 literals tried
OctetsA == {8, 10, 11, 100, 127, 169, 172, 173, 192, 193}
OctetsB == {0, 1, 15, 16, 17, 31, 32, 127, 168, 169, 254, 255}
OctetsC == {0, 1, 168}
OctetsD == {0, 1, 2, 254}

\* host names tried, besides the entries of BLOCKED_HOSTS
HostNames ==
    { "LOCALHOST", "example.com", "mylocalhost.example.com", "10.example.com",
      "[::1]", "127.1", "2130706433", "Example.COM:8080", "[::1" }

Schemes == {"http", "https", "ftp"}

Paths == {"", "/", "/a?b=1"}

URLInputs ==
    [scheme : Schemes, t : {"ip4"},
     o : OctetsA \X OctetsB \X OctetsC \X OctetsD, s : {""}, path : Paths]
    \cup
    [scheme : Schemes, t : {"name"}, o : {<<0, 0, 0, 0>>},
     s : HostNames \cup {BLOCKED_HOSTS[i] : i \in 1..Len(BLOCKED_HOSTS)}, path : Paths]

\* the URL string a client sends for an input
URLString(in) ==
    in.scheme \o "://" \o
    (IF in.t = "ip4"
     THEN NatToStr(in.o[1]) \o "." \o NatToStr(in.o[2]) \o "." \o
          NatToStr(in.o[3]) \o "." \o NatToStr(in.o[4])
     ELSE in.s) \o in.path

NoResult == [kind |-> "none", protocol |-> "", hostname |-> "", href |-> ""]

\* validateURL is not being tried
URLIdle == urlInput = <<>> /\ urlResult = <<>>

\* the clock at start-up
StartTime == 1000000

NoSigResult == [v |-> "none", at |-> 0]

\* verifyRequestSignature is not being tried
SigIdle == sigInput = <<>> /\ sigResult = <<>>

NoResponse ==
    [status |-> 0, error |-> "", message |-> "", hint |-> "", origin |-> "",
     extensionId |-> "", isAllowed |-> FALSE]

\* authenticateRequest has not gone past its skip of /health and /
NoAuth ==
    [ran |-> FALSE, isValidChromeExtension |-> FALSE, verifyCalls |-> 0,
     isValidOrigin |-> FALSE, isValidReferer |-> FALSE, isFromAllowedIP |-> FALSE,
     isGoogleCloudFunction |-> FALSE, isFromGoogleCloud |-> FALSE, authSource |-> ""]

\* no request is in the middleware chain
AuthIdle ==
    req = <<>> /\ stage = "idle" /\ res = <<>> /\ routed = "" /\ auth = <<>>

\* a deployment that has not been given the request
NoReply == [at |-> "idle", res |-> EmptyBody]

\* no deployment is looked at, no request body is read
ConfigIdle == deployments = <<>> /\ replies = <<>> /\ call = <<>>

\* how many /scrape requests the server receives
NumRequests == 2

RequestIds == 1..NumRequests

NoText == [s |-> "", pad |-> 0]

\* no request body read
NoCall == [route |-> "", url |-> "", html |-> "", viewport |-> FALSE]

\* how many termination signals the process receives
MaxSignals == 2

SignalIds == 1..MaxSignals

\* process.on("SIGTERM", ...), process.on("SIGINT", ...)
Signals == {"SIGTERM", "SIGINT"}

NoShutdown == [pc |-> "idle", signal |-> "", target |-> 0]

\* the server after start-up: no engine, no request in the handler
SrvInit ==
    /\ browserInstance = 0
    /\ engine = [e \in RequestIds |-> "unused"]
    /\ pc = [r \in RequestIds |-> "idle"]
    /\ url = [r \in RequestIds |-> ""]
    /\ verdict = [r \in RequestIds |-> ""]
    /\ browser = [r \in RequestIds |-> 0]
    /\ page = [r \in RequestIds |-> "undefined"]
    /\ closeCalls = [r \in RequestIds |-> 0]
    /\ gotoCalls = [r \in RequestIds |-> 0]
    /\ text = [r \in RequestIds |-> NoText]
    /\ status = [r \in RequestIds |-> 0]
    /\ sent = [r \in RequestIds |-> 0]
    /\ thrown = [r \in RequestIds |-> ""]
    /\ exited = FALSE
    /\ shutdown = [s \in SignalIds |-> NoShutdown]
    /\ browserCloseCalls = [e \in RequestIds |-> 0]

InitURL ==
    /\ urlInput \in URLInputs /\ urlResult = NoResult
    /\ now = StartTime /\ SigIdle /\ AuthIdle /\ SrvInit /\ ConfigIdle

\* validateURL(urlString) is called on the input
CallValidateURL ==
    /\ urlResult = NoResult
    /\ urlResult' = validateURL(URLString(urlInput))
    /\ UNCHANGED <<urlInput, outsideURL>>

NextURL == CallValidateURL

SpecURL == InitURL /\ [][NextURL]_vars

(***************************************************************************)
(* SpecSig: verifyRequestSignature applied to signed and altered requests  *)
(* while the clock advances.                                               *)
(***************************************************************************)

\* how far the clock may advance, in steps of TickMs
MaxTicks == 2

TickMs == 1

\* X-Timestamp values: numerals around both ends of the window, and values
\* that are no numerals
TimestampOffsets == {0 - fiveMinutes - 1, 0 - fiveMinutes, 0, fiveMinutes, fiveMinutes + 1}

Timestamps ==
    {NatToStr(StartTime + d) : d \in TimestampOffsets}
        \cup {"abc", NatToStr(StartTime) \o "abc"}

Nonces == {"n1", "n2", "n1:x"}

ExtensionIds == {"ojgppiocgnfkdafnikkiliekbmmagome", "aaaabbbbccccddddeeeeffffgggghhhh"}

SigningKeys == {SERVER_SECRET, "not-the-secret"}

SigInputs ==
    [signedT : Timestamps, signedN : Nonces, signedE : ExtensionIds, key : SigningKeys,
     timestamp : Timestamps, nonce : Nonces, extensionId : ExtensionIds,
     tampered : BOOLEAN]

\* the X-Signature header: the client's HMAC over what it signed, with a
\* digit appended when the signature bytes were altered on the way
SentSignature(in) ==
    HmacSha256Hex(in.key, in.signedT \o ":" \o in.signedN \o ":" \o in.signedE)
        \o (IF in.tampered THEN "0" ELSE "")

InitSig ==
    /\ URLIdle /\ AuthIdle /\ SrvInit /\ ConfigIdle
    /\ now = StartTime
    /\ sigInput \in SigInputs
    /\ sigResult = NoSigResult

\* time passes
Tick ==
    /\ now < StartTime + MaxTicks * TickMs
    /\ now' = now + TickMs
    /\ UNCHANGED <<sigVars, outsideSig>>

\* verifyRequestSignature(timestamp, nonce, signature, extensionId) is called
CallVerifySignature ==
    /\ sigResult = NoSigResult
    /\ sigResult' =
          [v |-> IF verifyRequestSignature(sigInput.timestamp, sigInput.nonce,
                        SentSignature(sigInput), sigInput.extensionId, now)
                 THEN "true" ELSE "false",
           at |-> now]
    /\ UNCHANGED <<now, sigInput, outsideSig>>

NextSig == Tick \/ CallVerifySignature

SpecSig == InitSig /\ [][NextSig]_vars

(***************************************************************************)
(* SpecAuth: one request through the middleware chain                      *)
(*   cors -> authenticateRequest -> route handler | error middleware.      *)
(* helmet, compression and the body parsers pass every request on.         *)
(***************************************************************************)

\* method and path of the requests tried
Endpoints ==
    { <<"GET", "/health">>, <<"GET", "/">>, <<"GET", "/extension-info">>,
      <<"POST", "/scrape">>, <<"GET", "/scrape">>, <<"GET", "/invalid">> }

Origins ==
    { "", "chrome-extension://ojgppiocgnfkdafnikkiliekbmmagome",
      "chrome-extension://aaaabbbbccccddddeeeeffffgggghhhh/popup.html",
      "https://us-central1-clicksafe-374816.cloudfunctions.net",
      "https://evil.example" }

Referers ==
    { "", "https://us-central1-clicksafe-374816.cloudfunctions.net/scan",
      "https://evil.example/page" }

UserAgents == { "curl/8.0", "Google-Cloud-Functions/1.0" }

ForwardedFors ==
    { "", "8.8.8.8, 176.136.146.11", "176.136.146.110", "210.1.2.3", "10.1.2.3" }

RealIPs == { "", "176.136.146.11" }

ClientIPs == { "203.0.113.9", "176.136.146.11" }

\* the signature headers a client may add
SignatureKinds == { "none", "valid", "invalid", "stale", "partial" }

SignatureHeaders(kind, origin) ==
    LET fresh == NatToStr(StartTime)
        old   == NatToStr(StartTime - fiveMinutes - 1)
        mac(t) == HmacSha256Hex(SERVER_SECRET,
                                t \o ":" \o "n1" \o ":" \o ExtensionIdOf(origin))
    IN  CASE kind = "valid"   -> [timestamp |-> fresh, nonce |-> "n1", signature |-> mac(fresh)]
          [] kind = "invalid" -> [timestamp |-> fresh, nonce |-> "n1", signature |-> "deadbeef"]
          [] kind = "stale"   -> [timestamp |-> old, nonce |-> "n1", signature |-> mac(old)]
          [] kind = "partial" -> [timestamp |-> "", nonce |-> "", signature |-> "deadbeef"]
          [] OTHER            -> [timestamp |-> "", nonce |-> "", signature |-> ""]

Requests ==
    { [method |-> e[1], path |-> e[2], origin |-> o, referer |-> rf, userAgent |-> ua,
       forwardedFor |-> ff, realIP |-> ri, clientIP |-> ci,
       timestamp |-> SignatureHeaders(k, o).timestamp,
       nonce |-> SignatureHeaders(k, o).nonce,
       signature |-> SignatureHeaders(k, o).signature] :
      e \in Endpoints, o \in Origins, rf \in Referers, ua \in UserAgents,
      ff \in ForwardedFors, ri \in RealIPs, ci \in ClientIPs, k \in SignatureKinds }

InitAuth ==
    /\ URLIdle /\ SigIdle /\ SrvInit /\ ConfigIdle
    /\ now = StartTime
    /\ req \in Requests
    /\ stage = "cors"
    /\ res = NoResponse
    /\ routed = ""
    /\ auth = NoAuth

\* app.use(cors({origin: ...})): the origin callback passes the request on or
\* hands Error("Not allowed by CORS") to the error middleware
CorsMiddleware ==
    /\ stage = "cors"
    /\ stage' = IF CorsAllows(req.origin) THEN "auth" ELSE "error"
    /\ UNCHANGED <<req, res, routed, auth, outsideAuth>>

\* app.use(authenticateRequest)
AuthenticateRequest ==
    /\ stage = "auth"
    /\ auth' = IF SkipsAuthentication(req) THEN auth
               ELSE [ran |-> TRUE,
                     isValidChromeExtension |-> IsValidChromeExtension(req, now),
                     verifyCalls |-> IF VerifiesSignature(req) THEN 1 ELSE 0,
                     isValidOrigin |-> MatchesAllowedOrigin(req.origin),
                     isValidReferer |-> MatchesAllowedOrigin(req.referer),
                     isFromAllowedIP |-> IsFromAllowedIP(req),
                     isGoogleCloudFunction |-> IsGoogleCloudFunction(req),
                     isFromGoogleCloud |-> IsFromGoogleCloud(req),
                     authSource |-> IF AnyMethodPasses(req, now)
                                    THEN AuthSource(req, now) ELSE ""]
    /\ IF SkipsAuthentication(req) \/ AnyMethodPasses(req, now)
       THEN stage' = "route" /\ res' = res
       ELSE /\ stage' = "done"
            /\ res' = [NoResponse EXCEPT
                          !.status = 403,
                          !.error = "Forbidden: Unauthorized access",
                          !.message = "This service only accepts requests from authorized sources.",
                          !.hint = DenyHint(req)]
    /\ UNCHANGED <<req, routed, outsideAuth>>

\* app.get("/health")
HealthRoute ==
    /\ stage = "route" /\ req.method = "GET" /\ req.path = "/health"
    /\ stage' = "done" /\ routed' = "/health"
    /\ res' = [NoResponse EXCEPT !.status = 200]
    /\ UNCHANGED <<req, auth, outsideAuth>>

\* app.get("/")
RootRoute ==
    /\ stage = "route" /\ req.method = "GET" /\ req.path = "/"
    /\ stage' = "done" /\ routed' = "/"
    /\ res' = [NoResponse EXCEPT !.status = 200]
    /\ UNCHANGED <<req, auth, outsideAuth>>

\* app.get("/extension-info")
ExtensionInfoRoute ==
    /\ stage = "route" /\ req.method = "GET" /\ req.path = "/extension-info"
    /\ stage' = "done" /\ routed' = "/extension-info"
    /\ res' = IF ~IsChromeExtension(req.origin)
              THEN [NoResponse EXCEPT !.status = 400,
                        !.error = "This endpoint is only for Chrome extensions"]
              ELSE [NoResponse EXCEPT !.status = 200,
                        !.extensionId = ExtensionIdOf(req.origin),
                        !.isAllowed = ExtensionIdOf(req.origin) \in ALLOWED_EXTENSION_IDS]
    /\ UNCHANGED <<req, auth, outsideAuth>>

\* app.post("/scrape"): the request enters the handler (Spec follows it on)
ScrapeRoute ==
    /\ stage = "route" /\ req.method = "POST" /\ req.path = "/scrape"
    /\ stage' = "done" /\ routed' = "/scrape"
    /\ UNCHANGED <<req, res, auth, outsideAuth>>

\* no route matches: the framework answers 404
NoRoute ==
    /\ stage = "route"
    /\ <<req.method, req.path>> \notin
          { <<"GET", "/health">>, <<"GET", "/">>, <<"GET", "/extension-info">>,
            <<"POST", "/scrape">> }
    /\ stage' = "done"
    /\ res' = [NoResponse EXCEPT !.status = 404]
    /\ UNCHANGED <<req, routed, auth, outsideAuth>>

\* app.use((err, req, res, next) => ...), reached with the CORS error
ErrorMiddleware ==
    /\ stage = "error"
    /\ stage' = "done"
    /\ res' = [NoResponse EXCEPT
                  !.status = 403,
                  !.error = "CORS Error",
                  !.message = "This origin is not allowed. Chrome extensions must include X-API-Key header.",
                  !.origin = req.origin]
    /\ UNCHANGED <<req, routed, auth, outsideAuth>>

NextAuth ==
    \/ CorsMiddleware
    \/ AuthenticateRequest
    \/ HealthRoute
    \/ RootRoute
    \/ ExtensionInfoRoute
    \/ ScrapeRoute
    \/ NoRoute
    \/ ErrorMiddleware

SpecAuth == InitAuth /\ [][NextAuth]_vars

(***************************************************************************)
(* SpecConfig: one request given to two deployments of the server that     *)
(* differ in nothing but their configuration.                              *)
(***************************************************************************)

DeploymentIds == {1, 2}

\* every combination of the deployed value and other values of each setting
Configs ==
    [secret : {SERVER_SECRET, "another-secret"},
     extensionIds : {ALLOWED_EXTENSION_IDS, {"aaaabbbbccccddddeeeeffffgggghhhh"}},
     origins : {ALLOWED_ORIGINS, {"https://evil.example"}},
     ips : {ALLOWED_IPS, {"203.0.113.9"}, {}}]

\* the requests given to both deployments
ConfigRequests ==
    { r \in Requests :
        /\ r.method = "GET" /\ r.path = "/extension-info"
        /\ r.userAgent = "curl/8.0" /\ r.realIP = ""
        /\ r.forwardedFor = "" /\ r.referer = ""
        /\ r.timestamp # NatToStr(StartTime - fiveMinutes - 1) }

InitConfig ==
    /\ URLIdle /\ SigIdle /\ SrvInit /\ call = <<>>
    /\ now = StartTime
    /\ req \in ConfigRequests
    /\ stage = "idle" /\ res = NoResponse /\ routed = "" /\ auth = NoAuth
    /\ deployments \in Configs \X Configs
    /\ replies = <<NoReply, NoReply>>

\* deployment d receives the request and answers it or routes it
Serve(d) ==
    /\ replies[d] = NoReply
    /\ replies' = [replies EXCEPT ![d] = ReplyIn(deployments[d], req, now)]
    /\ UNCHANGED <<req, deployments, outsideConfig>>

NextConfig == \E d \in DeploymentIds : Serve(d)

SpecConfig == InitConfig /\ [][NextConfig]_vars

(***************************************************************************)
(* Spec: concurrent /scrape handlers sharing browserInstance.  Every await *)
(* of the handler is a point where other handlers run.  An engine is named *)
(* by the request whose getBrowser call launched it.                       *)
(***************************************************************************)

\* what page.evaluate may return
Texts ==
    { [s |-> "", pad |-> 0],
      [s |-> "Checking your browser. Cloudflare", pad |-> 0],
      [s |-> "CloudFlare Ray ID", pad |-> 20000],
      [s |-> "hello", pad |-> 9994],
      [s |-> "hello", pad |-> 9995] }

Init ==
    /\ URLIdle /\ SigIdle /\ AuthIdle /\ ConfigIdle
    /\ now = StartTime
    /\ SrvInit

\* browserInstance.isConnected()
IsConnected(e) == engine[e] = "live"

\* faulty variant: a handle that is set is reused whatever isConnected() says
NeedsLaunch_OnlyWhenNull == browserInstance = 0

\* !browserInstance || !browserInstance.isConnected()
NeedsLaunch == IF browserInstance = 0 THEN TRUE ELSE ~IsConnected(browserInstance)

\* faulty variant: the catch block never finds a page to close
PageNeedsClose_Never(r) == FALSE

\* page && !page.isClosed()
PageNeedsClose(r) == page[r] = "open"

\* res.status(code).json(...): a response is sent
Respond(r, code) ==
    /\ status' = [status EXCEPT ![r] = code]
    /\ sent' = [sent EXCEPT ![r] = @ + 1]

\* the catch block up to its first await, entered with the error of step:
\* with a page that is not closed it awaits page.close(), otherwise it
\* answers 500 at once
EnterCatch(r, step) ==
    /\ thrown' = [thrown EXCEPT ![r] = step]
    /\ IF PageNeedsClose(r)
       THEN pc' = [pc EXCEPT ![r] = "catchClosing"] /\ UNCHANGED <<status, sent>>
       ELSE pc' = [pc EXCEPT ![r] = "done"] /\ Respond(r, 500)

\* the handler from its entry to its first await: the url check,
\* validateURL, and getBrowser up to its await or its return
Arrive(r) ==
    /\ ~exited
    /\ pc[r] = "idle"
    /\ IF r = 1 THEN TRUE ELSE pc[r - 1] # "idle"
    /\ \E u \in ScrapeURLs :
         /\ url' = [url EXCEPT ![r] = u]
         /\ verdict' = [verdict EXCEPT ![r] =
                           IF URLMissing(u) THEN "" ELSE validateURL(u).kind]
         /\ IF URLMissing(u)
            THEN /\ Respond(r, 400)
                 /\ pc' = [pc EXCEPT ![r] = "done"]
                 /\ UNCHANGED <<engine, browser, thrown>>
            ELSE IF URLRejected(u)
            THEN /\ EnterCatch(r, "validateURL")
                 /\ UNCHANGED <<engine, browser>>
            ELSE IF NeedsLaunch
            THEN /\ engine' = [engine EXCEPT ![r] = "starting"]
                 /\ pc' = [pc EXCEPT ![r] = "launching"]
                 /\ UNCHANGED <<status, sent, browser, thrown>>
            ELSE /\ browser' = [browser EXCEPT ![r] = browserInstance]
                 /\ pc' = [pc EXCEPT ![r] = "newPage"]
                 /\ UNCHANGED <<status, sent, engine, thrown>>
    /\ UNCHANGED <<browserInstance, page, closeCalls, gotoCalls, text, shutdownVars,
                   outsideSrv>>

\* puppeteer.launch resolves: browserInstance = <the engine>; return browserInstance
LaunchResolves(r) ==
    /\ ~exited
    /\ pc[r] = "launching"
    /\ engine' = [engine EXCEPT ![r] = "live"]
    /\ browserInstance' = r
    /\ browser' = [browser EXCEPT ![r] = r]
    /\ pc' = [pc EXCEPT ![r] = "newPage"]
    /\ UNCHANGED <<url, verdict, page, closeCalls, gotoCalls, text, status, sent, thrown,
                   shutdownVars, outsideSrv>>

\* faulty variant: the handle of the launch that failed is stored
AssignedOnFailedLaunch_ItsHandle(r) == r

\* browserInstance = await puppeteer.launch(...) when the await throws: the
\* assignment does not run
AssignedOnFailedLaunch(r) == browserInstance

\* puppeteer.launch rejects: the handler's catch block answers 500
LaunchRejects(r) ==
    /\ ~exited
    /\ pc[r] = "launching"
    /\ engine' = [engine EXCEPT ![r] = "failed"]
    /\ browserInstance' = AssignedOnFailedLaunch(r)
    /\ EnterCatch(r, "launch")
    /\ UNCHANGED <<url, verdict, browser, page, closeCalls, gotoCalls, text,
                   shutdownVars, outsideSrv>>

\* page = await browser.newPage()
NewPage(r) ==
    /\ ~exited
    /\ pc[r] = "newPage"
    /\ IF IsConnected(browser[r])
       THEN /\ page' = [page EXCEPT ![r] = "open"]
            /\ pc' = [pc EXCEPT ![r] = "configure"]
            /\ UNCHANGED <<status, sent, thrown>>
       ELSE /\ EnterCatch(r, "newPage")
            /\ UNCHANGED page
    /\ UNCHANGED <<browserInstance, engine, url, verdict, browser, closeCalls, gotoCalls, text,
                   shutdownVars, outsideSrv>>

\* setViewport, setUserAgent, setRequestInterception and page.on
Configure(r) ==
    /\ ~exited
    /\ pc[r] = "configure"
    /\ IF IsConnected(browser[r])
       THEN pc' = [pc EXCEPT ![r] = "goto"] /\ UNCHANGED <<status, sent, thrown>>
       ELSE EnterCatch(r, "configure")
    /\ UNCHANGED <<browserInstance, engine, url, verdict, browser, page, closeCalls, gotoCalls,
                   text, shutdownVars, outsideSrv>>

\* await page.goto(validatedURL.href, ...): it resolves, or it throws
\* (timeout, navigation error, engine gone)
Goto(r) ==
    /\ ~exited
    /\ pc[r] = "goto"
    /\ gotoCalls' = [gotoCalls EXCEPT ![r] = @ + 1]
    /\ \/ /\ IsConnected(browser[r])
          /\ pc' = [pc EXCEPT ![r] = "evaluate"]
          /\ UNCHANGED <<status, sent, thrown>>
       \/ EnterCatch(r, "goto")
    /\ UNCHANGED <<browserInstance, engine, url, verdict, browser, page, closeCalls, text,
                   shutdownVars, outsideSrv>>

\* textContent = await page.evaluate(...), then the !textContent check
Evaluate(r) ==
    /\ ~exited
    /\ pc[r] = "evaluate"
    /\ \/ /\ IsConnected(browser[r])
          /\ \E t \in Texts :
               /\ text' = [text EXCEPT ![r] = t]
               /\ IF IsEmptyText(t)
                  THEN /\ Respond(r, 500)
                       /\ pc' = [pc EXCEPT ![r] = "done"]
                  ELSE /\ pc' = [pc EXCEPT ![r] = "closing"]
                       /\ UNCHANGED <<status, sent>>
          /\ UNCHANGED thrown
       \/ EnterCatch(r, "evaluate") /\ UNCHANGED text
    /\ UNCHANGED <<browserInstance, engine, url, verdict, browser, page, closeCalls, gotoCalls,
                   shutdownVars, outsideSrv>>

\* await page.close() of the success path, then the policy checks and the
\* response; when it throws the catch block runs with the page still open
ClosePage(r) ==
    /\ ~exited
    /\ pc[r] = "closing"
    /\ closeCalls' = [closeCalls EXCEPT ![r] = @ + 1]
    /\ \/ /\ IsConnected(browser[r])
          /\ page' = [page EXCEPT ![r] = "closed"]
          /\ Respond(r, PolicyStatus(text[r]))
          /\ pc' = [pc EXCEPT ![r] = "done"]
          /\ UNCHANGED thrown
       \/ EnterCatch(r, "close") /\ UNCHANGED page
    /\ UNCHANGED <<browserInstance, engine, url, verdict, browser, gotoCalls, text,
                   shutdownVars, outsideSrv>>

\* faulty variant: a page.close() that throws in the catch block is not
\* caught, and the handler ends without a response
CatchClosePage_ThrowEscapes(r) ==
    /\ ~exited
    /\ pc[r] = "catchClosing"
    /\ closeCalls' = [closeCalls EXCEPT ![r] = @ + 1]
    /\ \/ IsConnected(browser[r]) /\ page' = [page EXCEPT ![r] = "closed"] /\ Respond(r, 500)
       \/ UNCHANGED <<page, status, sent>>
    /\ pc' = [pc EXCEPT ![r] = "done"]
    /\ UNCHANGED <<browserInstance, engine, url, verdict, browser, gotoCalls, text, thrown,
                   shutdownVars, outsideSrv>>

\* await page.close() of the catch block (its own failure is only logged),
\* then the 500 response
CatchClosePage(r) ==
    /\ ~exited
    /\ pc[r] = "catchClosing"
    /\ closeCalls' = [closeCalls EXCEPT ![r] = @ + 1]
    /\ \/ IsConnected(browser[r]) /\ page' = [page EXCEPT ![r] = "closed"]
       \/ UNCHANGED page
    /\ Respond(r, 500)
    /\ pc' = [pc EXCEPT ![r] = "done"]
    /\ UNCHANGED <<browserInstance, engine, url, verdict, browser, gotoCalls, text, thrown,
                   shutdownVars, outsideSrv>>

\* the engine process dies or its connection drops: isConnected() turns false
Disconnect(e) ==
    /\ ~exited
    /\ engine[e] = "live"
    /\ engine' = [engine EXCEPT ![e] = "disconnected"]
    /\ UNCHANGED <<browserInstance, pc, url, verdict, browser, page, closeCalls, gotoCalls, text,
                   status, sent, thrown, shutdownVars, outsideSrv>>

Next ==
    \/ \E r \in RequestIds : Arrive(r)
    \/ \E r \in RequestIds : LaunchResolves(r)
    \/ \E r \in RequestIds : LaunchRejects(r)
    \/ \E r \in RequestIds : NewPage(r)
    \/ \E r \in RequestIds : Configure(r)
    \/ \E r \in RequestIds : Goto(r)
    \/ \E r \in RequestIds : Evaluate(r)
    \/ \E r \in RequestIds : ClosePage(r)
    \/ \E r \in RequestIds : CatchClosePage(r)
    \/ \E e \in RequestIds : Disconnect(e)

Spec == Init /\ [][Next]_vars

\* the handler of request r resumes from the await it is suspended at
Resume(r) ==
    \/ LaunchResolves(r)
    \/ LaunchRejects(r)
    \/ NewPage(r)
    \/ Configure(r)
    \/ Goto(r)
    \/ Evaluate(r)
    \/ ClosePage(r)
    \/ CatchClosePage(r)

\* Spec with every awaited engine call (launch, newPage, goto, evaluate,
\* close) eventually returning or throwing
SpecLive == Init /\ [][Next]_vars /\ \A r \in RequestIds : WF_vars(Resume(r))

(***************************************************************************)
(* SpecShutdown: the server of Spec with termination signals delivered to  *)
(* it.  Each signal starts its own call of gracefulShutdown; process.exit  *)
(* ends every handler where it is suspended.                               *)
(***************************************************************************)

\* the requests that have not been answered
handlerVars ==
    <<browserInstance, pc, url, verdict, browser, page, closeCalls, gotoCalls, text, status,
      sent, thrown>>

\* browserInstance && browserInstance.isConnected()
HasConnectedBrowser ==
    IF browserInstance = 0 THEN FALSE ELSE IsConnected(browserInstance)

\* a signal arrives: gracefulShutdown(signal) from its entry to
\* await browserInstance.close(), or to process.exit(0) when it skips the close
Signal(s) ==
    /\ ~exited
    /\ shutdown[s].pc = "idle"
    /\ IF s = 1 THEN TRUE ELSE shutdown[s - 1].pc # "idle"
    /\ \E sig \in Signals :
         IF HasConnectedBrowser
         THEN /\ browserCloseCalls' = [browserCloseCalls EXCEPT ![browserInstance] = @ + 1]
              /\ shutdown' = [shutdown EXCEPT ![s] =
                                 [pc |-> "closing", signal |-> sig, target |-> browserInstance]]
              /\ UNCHANGED exited
         ELSE /\ shutdown' = [shutdown EXCEPT ![s] =
                                 [pc |-> "done", signal |-> sig, target |-> 0]]
              /\ exited' = TRUE
              /\ UNCHANGED browserCloseCalls
    /\ UNCHANGED <<engine, handlerVars, outsideSrv>>

\* await browserInstance.close() resolves: the engine is gone; process.exit(0)
CloseResolves(s) ==
    /\ ~exited
    /\ shutdown[s].pc = "closing"
    /\ engine' = [engine EXCEPT ![shutdown[s].target] = "closed"]
    /\ shutdown' = [shutdown EXCEPT ![s].pc = "done"]
    /\ exited' = TRUE
    /\ UNCHANGED <<browserCloseCalls, handlerVars, outsideSrv>>

\* await browserInstance.close() throws: the error is logged; process.exit(0)
CloseRejects(s) ==
    /\ ~exited
    /\ shutdown[s].pc = "closing"
    /\ shutdown' = [shutdown EXCEPT ![s].pc = "done"]
    /\ exited' = TRUE
    /\ UNCHANGED <<engine, browserCloseCalls, handlerVars, outsideSrv>>

NextShutdown ==
    \/ \E r \in RequestIds : Arrive(r)
    \/ \E r \in RequestIds : LaunchResolves(r)
    \/ \E r \in RequestIds : LaunchRejects(r)
    \/ \E r \in RequestIds : NewPage(r)
    \/ \E r \in RequestIds : Configure(r)
    \/ \E r \in RequestIds : Goto(r)
    \/ \E r \in RequestIds : Evaluate(r)
    \/ \E r \in RequestIds : ClosePage(r)
    \/ \E r \in RequestIds : CatchClosePage(r)
    \/ \E e \in RequestIds : Disconnect(e)
    \/ \E s \in SignalIds : Signal(s)
    \/ \E s \in SignalIds : CloseResolves(s)
    \/ \E s \in SignalIds : CloseRejects(s)

SpecShutdown == Init /\ [][NextShutdown]_vars

(***************************************************************************)
(* SpecPerRequest: the handlers that launch an engine of their own for     *)
(* every request: /screenshot and /pdf, and the /scrape that closes its    *)
(* engine before it answers.  The engine of request r is engine[r]; its    *)
(* handle is the const browser of the try block, which the catch block     *)
(* cannot see.                                                             *)
(***************************************************************************)

InitPerRequest ==
    /\ URLIdle /\ SigIdle /\ AuthIdle
    /\ deployments = <<>> /\ replies = <<>>
    /\ now = StartTime
    /\ SrvInit
    /\ call = [r \in RequestIds |-> NoCall]

Routes == {"/screenshot", "/pdf", "/scrape"}

\* req.body.html of /pdf
Htmls == {"", "<h1>report</h1>"}

\* the route and the body of the requests tried: options.viewport matters to
\* /screenshot only, html to /pdf only
Calls ==
    { c \in [route : Routes, url : ScrapeURLs, html : Htmls, viewport : BOOLEAN] :
        /\ c.route # "/pdf" => c.html = ""
        /\ c.route # "/screenshot" => ~c.viewport }

\* if (!url) for /screenshot and /scrape, if (!url && !html) for /pdf
BodyMissing(c) ==
    IF c.route = "/pdf" THEN c.url = "" /\ c.html = "" ELSE c.url = ""

\* the catch block of these handlers: it logs and answers 500, and closes
\* nothing
Fail(r, step) ==
    /\ thrown' = [thrown EXCEPT ![r] = step]
    /\ pc' = [pc EXCEPT ![r] = "done"]
    /\ Respond(r, 500)

\* the handler from its entry to await puppeteer.launch(...)
Receive(r) ==
    /\ pc[r] = "idle"
    /\ IF r = 1 THEN TRUE ELSE pc[r - 1] # "idle"
    /\ \E c \in Calls :
         /\ call' = [call EXCEPT ![r] = c]
         /\ url' = [url EXCEPT ![r] = c.url]
         /\ verdict' = [verdict EXCEPT ![r] =
                           IF BodyMissing(c) \/ c.url = "" THEN "" ELSE validateURL(c.url).kind]
         /\ IF BodyMissing(c)
            THEN /\ Respond(r, 400)
                 /\ pc' = [pc EXCEPT ![r] = "done"]
                 /\ UNCHANGED <<engine, thrown>>
            ELSE IF c.url # "" /\ URLRejected(c.url)
            THEN /\ Fail(r, "validateURL")
                 /\ UNCHANGED engine
            ELSE /\ engine' = [engine EXCEPT ![r] = "starting"]
                 /\ pc' = [pc EXCEPT ![r] = "launching"]
                 /\ UNCHANGED <<status, sent, thrown>>
    /\ UNCHANGED <<browser, page, closeCalls, text, browserCloseCalls, outsidePerRequest>>

\* const browser = await puppeteer.launch(...): it resolves or it throws
Launch(r) ==
    /\ pc[r] = "launching"
    /\ \/ /\ engine' = [engine EXCEPT ![r] = "live"]
          /\ browser' = [browser EXCEPT ![r] = r]
          /\ pc' = [pc EXCEPT ![r] = "newPage"]
          /\ UNCHANGED <<status, sent, thrown>>
       \/ /\ engine' = [engine EXCEPT ![r] = "failed"]
          /\ Fail(r, "launch")
          /\ UNCHANGED browser
    /\ UNCHANGED <<call, url, verdict, page, closeCalls, text, browserCloseCalls,
                   outsidePerRequest>>

\* const page = await browser.newPage(): it resolves or it throws
OpenPage(r) ==
    /\ pc[r] = "newPage"
    /\ \/ /\ page' = [page EXCEPT ![r] = "open"]
          /\ pc' = [pc EXCEPT ![r] =
                       IF call[r].route = "/screenshot" /\ call[r].viewport
                       THEN "setViewport" ELSE "navigate"]
          /\ UNCHANGED <<status, sent, thrown>>
       \/ Fail(r, "newPage") /\ UNCHANGED page
    /\ UNCHANGED <<call, url, verdict, engine, browser, closeCalls, text, browserCloseCalls,
                   outsidePerRequest>>

\* /screenshot: if (options.viewport) await page.setViewport(options.viewport)
SetViewport(r) ==
    /\ pc[r] = "setViewport"
    /\ \/ pc' = [pc EXCEPT ![r] = "navigate"] /\ UNCHANGED <<status, sent, thrown>>
       \/ Fail(r, "setViewport")
    /\ UNCHANGED <<call, url, verdict, engine, browser, page, closeCalls, text,
                   browserCloseCalls, outsidePerRequest>>

\* await page.goto(validatedURL.href, ...), or for /pdf without a url
\* await page.setContent(html, ...): it resolves or it throws
Navigate(r) ==
    /\ pc[r] = "navigate"
    /\ \/ pc' = [pc EXCEPT ![r] = "render"] /\ UNCHANGED <<status, sent, thrown>>
       \/ Fail(r, IF call[r].url # "" THEN "goto" ELSE "setContent")
    /\ UNCHANGED <<call, url, verdict, engine, browser, page, closeCalls, text,
                   browserCloseCalls, outsidePerRequest>>

\* await page.screenshot(...), await page.pdf(...), or for /scrape
\* await page.evaluate(...) and the !textContent check, which answers 500
\* and returns
Render(r) ==
    /\ pc[r] = "render"
    /\ \/ /\ call[r].route # "/scrape"
          /\ pc' = [pc EXCEPT ![r] = "browserClose"]
          /\ UNCHANGED <<text, status, sent, thrown>>
       \/ /\ call[r].route = "/scrape"
          /\ \E t \in Texts :
               /\ text' = [text EXCEPT ![r] = t]
               /\ IF IsEmptyText(t)
                  THEN /\ Respond(r, 500)
                       /\ pc' = [pc EXCEPT ![r] = "done"]
                  ELSE /\ pc' = [pc EXCEPT ![r] = "pageClose"]
                       /\ UNCHANGED <<status, sent>>
          /\ UNCHANGED thrown
       \/ Fail(r, "render") /\ UNCHANGED text
    /\ UNCHANGED <<call, url, verdict, engine, browser, page, closeCalls, browserCloseCalls,
                   outsidePerRequest>>

\* /scrape: await page.close(), then the two policy checks, each of which
\* answers 406 and returns
PageClose(r) ==
    /\ pc[r] = "pageClose"
    /\ closeCalls' = [closeCalls EXCEPT ![r] = @ + 1]
    /\ \/ /\ page' = [page EXCEPT ![r] = "closed"]
          /\ IF PolicyStatus(text[r]) = 406
             THEN /\ Respond(r, 406)
                  /\ pc' = [pc EXCEPT ![r] = "done"]
             ELSE /\ pc' = [pc EXCEPT ![r] = "browserClose"]
                  /\ UNCHANGED <<status, sent>>
          /\ UNCHANGED thrown
       \/ Fail(r, "close") /\ UNCHANGED page
    /\ UNCHANGED <<call, url, verdict, engine, browser, text, browserCloseCalls,
                   outsidePerRequest>>

\* await browser.close(), then the response with the result
BrowserClose(r) ==
    /\ pc[r] = "browserClose"
    /\ browserCloseCalls' = [browserCloseCalls EXCEPT ![r] = @ + 1]
    /\ \/ /\ engine' = [engine EXCEPT ![r] = "closed"]
          /\ Respond(r, 200)
          /\ pc' = [pc EXCEPT ![r] = "done"]
          /\ UNCHANGED thrown
       \/ Fail(r, "browserClose") /\ UNCHANGED engine
    /\ UNCHANGED <<call, url, verdict, browser, page, closeCalls, text, outsidePerRequest>>

NextPerRequest ==
    \/ \E r \in RequestIds : Receive(r)
    \/ \E r \in RequestIds : Launch(r)
    \/ \E r \in RequestIds : OpenPage(r)
    \/ \E r \in RequestIds : SetViewport(r)
    \/ \E r \in RequestIds : Navigate(r)
    \/ \E r \in RequestIds : Render(r)
    \/ \E r \in RequestIds : PageClose(r)
    \/ \E r \in RequestIds : BrowserClose(r)

SpecPerRequest == InitPerRequest /\ [][NextPerRequest]_vars

\* ---- addresses the validator is documented to keep out (SECURITY.md) ----

IsPrivateOctets(o) ==
    \/ o[1] = 10
    \/ o[1] = 172 /\ o[2] >= 16 /\ o[2] <= 31
    \/ o[1] = 192 /\ o[2] = 168

IsInternalInput(in) ==
    IF in.t = "ip4"
    THEN \/ IsPrivateOctets(in.o)
         \/ in.o[1] = 127
         \/ in.o[1] = 169 /\ in.o[2] = 254
         \/ in.o = <<0, 0, 0, 0>>
    ELSE ToLowerCase(in.s) \in
            {"localhost", "127.0.0.1", "0.0.0.0", "[::1]", "127.1", "2130706433",
             "metadata.google.internal", "169.254.169.254"}

(***************************************************************************)
(* Claims about validateURL.                                               *)
(***************************************************************************)

IsBlockedEntry(in) ==
    /\ in.t = "name" /\ in.scheme = "http" /\ in.path = ""
    /\ \E i \in 1..Len(BLOCKED_HOSTS) : in.s = BLOCKED_HOSTS[i]

\* C8 as stated: for every entry h of BLOCKED_HOSTS, validateURL("http://" + h)
\* is rejected with the BlockedHost kind.
C8_EveryEntryBlockedHost ==
    (IsBlockedEntry(urlInput) /\ urlResult # NoResult)
        => urlResult.kind = "BlockedHost"

\* C8 amended: for every entry h of BLOCKED_HOSTS, validateURL("http://" + h)
\* is rejected; the kind is BlockedHost for localhost, 127.0.0.1, 0.0.0.0,
\* metadata.google.internal, 169.254.169.254 and 10.0.0.0/8 (hostname 10.0.0.0
\* contains 0.0.0.0), InvalidFormat for ::1 (not a parsable authority) and
\* PrivateIPRange for 172.16.0.0/12 and 192.168.0.0/16 (the "/NN" is the path).
C8_EveryEntryRejected ==
    (IsBlockedEntry(urlInput) /\ urlResult # NoResult)
        => urlResult.kind =
             (CASE urlInput.s = "::1" -> "InvalidFormat"
                [] urlInput.s \in {"172.16.0.0/12", "192.168.0.0/16"} -> "PrivateIPRange"
                [] OTHER -> "BlockedHost")

\* C8 witness: the entry with a CIDR suffix that is blocked by substring
C8_Witness ==
    /\ IsBlockedEntry(urlInput) /\ urlInput.s = "10.0.0.0/8"
    /\ urlResult.kind = "BlockedHost"

IsPrivateLiteral(in) ==
    in.t = "ip4" /\ in.scheme = "http" /\ in.path = "/" /\ IsPrivateOctets(in.o)

\* C9 as stated: every IPv4 literal in 10.*, 172.16-31.* or 192.168.* is
\* rejected with the PrivateIPRange kind, whatever the remaining octets are.
C9_PrivateLiteralKind ==
    (IsPrivateLiteral(urlInput) /\ urlResult # NoResult)
        => urlResult.kind = "PrivateIPRange"

\* C9 amended: every IPv4 literal in 10.*, 172.16-31.* or 192.168.* is
\* rejected; the kind is PrivateIPRange, except for 10.0.0.0, which contains
\* the blocked entry 0.0.0.0 and is rejected as BlockedHost one check earlier.
C9_PrivateLiteralRejected ==
    (IsPrivateLiteral(urlInput) /\ urlResult # NoResult)
        => urlResult.kind =
             (IF urlInput.o = <<10, 0, 0, 0>> THEN "BlockedHost" ELSE "PrivateIPRange")

\* C9 witness: a 172.31.* literal rejected as a private range
C9_Witness ==
    /\ IsPrivateLiteral(urlInput) /\ urlInput.o[1] = 172 /\ urlInput.o[2] = 31
    /\ urlResult.kind = "PrivateIPRange"

\* C10: every URL validateURL accepts has scheme http or https and a hostname
\* that is no loopback, link-local, private or cloud-metadata address.
C10_AcceptedIsPublic ==
    urlResult.kind = "Accepted"
        => /\ urlResult.protocol \in {"http:", "https:"}
           /\ ~IsInternalInput(urlInput)

\* the host text of an input, as the client wrote it
InputHost(in) ==
    IF in.t = "ip4"
    THEN NatToStr(in.o[1]) \o "." \o NatToStr(in.o[2]) \o "." \o
         NatToStr(in.o[3]) \o "." \o NatToStr(in.o[4])
    ELSE in.s

\* the host texts tried that are no parsable authority
UnparsableHosts == {"::1", "[::1"}

SentAsSigned(in) ==
    /\ in.key = SERVER_SECRET /\ ~in.tampered
    /\ in.timestamp = in.signedT /\ in.nonce = in.signedN /\ in.extensionId = in.signedE

\* how many of T, N, E and the signature differ from what was signed
Replaced(in) ==
    (IF in.timestamp # in.signedT THEN 1 ELSE 0) + (IF in.nonce # in.signedN THEN 1 ELSE 0)
    + (IF in.extensionId # in.signedE THEN 1 ELSE 0) + (IF in.tampered THEN 1 ELSE 0)

\* C6: verifyRequestSignature returns false whenever the timestamp is more
\* than 5 minutes from the current time, in the past or in the future, even
\* when the signature is the exact HMAC; exactly 5 minutes is inside.
C6_ReplayWindow ==
    sigResult.v # "none" =>
        \A d \in TimestampOffsets :
            sigInput.timestamp = NatToStr(StartTime + d) =>
                /\ Abs(sigResult.at - (StartTime + d)) > 5 * 60 * 1000
                        => sigResult.v = "false"
                /\ (Abs(sigResult.at - (StartTime + d)) = 5 * 60 * 1000
                        /\ SentAsSigned(sigInput))
                        => sigResult.v = "true"

\* C6 witness: a correctly signed request stamped in the future, rejected
C6_Witness ==
    /\ sigResult.v = "false" /\ SentAsSigned(sigInput)
    /\ sigInput.timestamp = NatToStr(StartTime + 5 * 60 * 1000 + 1)

\* C7: for a timestamp inside the window, the exact HMAC verifies, and
\* replacing exactly one of T, N, E or the signature makes verification fail.
C7_SignatureBinding ==
    sigResult.v # "none" =>
        \A d \in TimestampOffsets :
            (/\ sigInput.signedT = NatToStr(StartTime + d)
             /\ Abs(sigResult.at - (StartTime + d)) <= 5 * 60 * 1000
             /\ sigInput.key = SERVER_SECRET) =>
                /\ Replaced(sigInput) = 0 => sigResult.v = "true"
                /\ Replaced(sigInput) = 1 => sigResult.v = "false"

\* C7 witness: only the nonce was replaced, and verification failed
C7_Witness ==
    /\ sigResult.v = "false" /\ sigInput.key = SERVER_SECRET
    /\ Replaced(sigInput) = 1 /\ sigInput.nonce # sigInput.signedN
    /\ sigInput.signedT = NatToStr(StartTime)

\* C33: verifyRequestSignature returns true only for an X-Timestamp that
\* parses to a number within 5 minutes of the current time; a timestamp that
\* parseInt turns into NaN is rejected even when the signature is the HMAC of
\* the raw header strings.
C33_TimestampParses ==
    sigResult.v = "true" =>
        /\ ~ParseInt(sigInput.timestamp).nan
        /\ Abs(sigResult.at - ParseInt(sigInput.timestamp).v) <= 5 * 60 * 1000

(***************************************************************************)
(* Claims about the authorization gate.                                    *)
(***************************************************************************)

\* the request was handed to the route table (its handler, or the 404)
Admitted == stage = "route" \/ routed # "" \/ res.status = 404

\* C4: authorization is a logical OR: a request to a gated path for which at
\* least one strategy succeeds is admitted to its route handler, even when
\* every other strategy fails (an invalid signature, an Origin no allowlist
\* recognises).
C4_AnyStrategyAdmits ==
    (stage = "done" /\ ~SkipsAuthentication(req) /\ AnyMethodPasses(req, now))
        => Admitted

\* C5: a request to a gated path for which no strategy succeeds receives 403,
\* its route handler never runs, and the hint of the body is the extension
\* hint exactly when the Origin has the chrome-extension:// prefix and the
\* origin/IP hint otherwise.
C5_DeniedWithHint ==
    (stage = "done" /\ ~SkipsAuthentication(req) /\ ~AnyMethodPasses(req, now))
        => /\ res.status = 403
           /\ routed = ""
           /\ res.hint = (IF StartsWith(req.origin, "chrome-extension://")
                          THEN ExtensionHint ELSE OriginHint)

\* a strategy other than the extension strategy succeeds
OtherStrategyPasses(r) ==
    \/ MatchesAllowedOrigin(r.origin)
    \/ MatchesAllowedOrigin(r.referer)
    \/ IsFromAllowedIP(r)
    \/ IsGoogleCloudFunction(r)
    \/ IsFromGoogleCloud(r)

\* a chrome-extension request of an allowed extension (or from a developer IP)
\* that carries all three signature headers with a signature that does not
\* verify
BadlySigned(r, currentTime) ==
    /\ StartsWith(r.origin, "chrome-extension://")
    /\ ExtensionIdOf(r.origin) \in ALLOWED_EXTENSION_IDS \/ IsFromAllowedIP(r)
    /\ r.timestamp # "" /\ r.nonce # "" /\ r.signature # ""
    /\ ~verifyRequestSignature(r.timestamp, r.nonce, r.signature,
                               ExtensionIdOf(r.origin), currentTime)

\* C16: a request of an allowed extension with a full signature payload that
\* does not verify is not allowed by the extension strategy: it is admitted
\* exactly when another strategy succeeds, and otherwise receives 403.
C16_BadSignatureNotAllowed ==
    (stage = "done" /\ ~SkipsAuthentication(req) /\ BadlySigned(req, now))
        => /\ auth.ran /\ ~auth.isValidChromeExtension
           /\ auth.authSource # "Chrome Extension"
           /\ Admitted <=> OtherStrategyPasses(req)
           /\ ~OtherStrategyPasses(req) => (res.status = 403 /\ routed = "")

\* C16 witness: the allowlisted extension with a forged signature and no other
\* credential was denied with the extension hint
C16_Witness ==
    /\ stage = "done" /\ req.path = "/scrape" /\ req.method = "POST"
    /\ req.origin = "chrome-extension://ojgppiocgnfkdafnikkiliekbmmagome"
    /\ req.signature = "deadbeef" /\ req.timestamp # ""
    /\ ~OtherStrategyPasses(req)
    /\ res.status = 403 /\ res.hint = ExtensionHint

\* String.prototype.trim, for the blanks around a list item
RECURSIVE Trim(_)
Trim(s) ==
    IF Len(s) > 0 /\ SubSeq(s, 1, 1) = " " THEN Trim(SubSeq(s, 2, Len(s)))
    ELSE IF Len(s) > 0 /\ SubSeq(s, Len(s), Len(s)) = " " THEN Trim(SubSeq(s, 1, Len(s) - 1))
    ELSE s

\* the addresses listed in an X-Forwarded-For value
RECURSIVE ListedAddresses(_)
ListedAddresses(ff) ==
    IF ff = "" THEN {}
    ELSE IF IndexOf(ff, ",") = 0 THEN {Trim(ff)}
    ELSE {Trim(Before(ff, ","))} \cup ListedAddresses(After(ff, ","))

\* an address of the request is an entry of the developer IP allowlist
ResolvedIPAllowed(r) ==
    \/ r.clientIP \in ALLOWED_IPS
    \/ r.realIP \in ALLOWED_IPS
    \/ ListedAddresses(r.forwardedFor) \cap ALLOWED_IPS # {}

\* C17: a chrome-extension request without any signature header is allowed by
\* the extension strategy if and only if its extension ID is in
\* ALLOWED_EXTENSION_IDS or its IP is in the developer IP allowlist, and no
\* signature verification is performed for it.
C17_UnsignedExtension ==
    (/\ auth.ran /\ StartsWith(req.origin, "chrome-extension://")
     /\ req.timestamp = "" /\ req.nonce = "" /\ req.signature = "")
        => /\ auth.verifyCalls = 0
           /\ auth.isValidChromeExtension <=>
                 (\/ ExtensionIdOf(req.origin) \in ALLOWED_EXTENSION_IDS
                  \/ ResolvedIPAllowed(req))

\* C18: every GET request to /health or / receives its 200 response whatever
\* its headers are.
C18_HealthNeverRejected ==
    (stage = "done" /\ req.method = "GET" /\ req.path \in {"/health", "/"})
        => (res.status = 200 /\ routed = req.path)

\* the request carries no header a strategy looks at (its User-Agent is curl's)
NoAuthHeaders(r) ==
    /\ r.origin = "" /\ r.referer = "" /\ r.forwardedFor = "" /\ r.realIP = ""
    /\ r.timestamp = "" /\ r.nonce = "" /\ r.signature = ""
    /\ r.userAgent = "curl/8.0"

\* C23: a GET request to a path that has no route, sent with no
\* authentication headers, is answered with 404.
C23_UnknownPathIs404 ==
    (stage = "done" /\ req.method = "GET" /\ req.path = "/invalid" /\ NoAuthHeaders(req))
        => res.status = 404

\* the 32 characters that follow chrome-extension:// in an Origin
OriginId(origin) == SubSeq(origin, 20, 51)

\* C25: for a request admitted by authentication, GET /extension-info answers
\* 400 if and only if the Origin is absent or lacks the chrome-extension://
\* prefix; otherwise it answers 200 with the extension ID of the Origin and
\* isAllowed equal to that ID's membership in ALLOWED_EXTENSION_IDS.
C25_ExtensionInfo ==
    (stage = "done" /\ routed = "/extension-info") =>
        IF req.origin = "" \/ ~StartsWith(req.origin, "chrome-extension://")
        THEN res.status = 400
        ELSE /\ res.status = 200
             /\ res.extensionId = OriginId(req.origin)
             /\ res.isAllowed = (OriginId(req.origin) \in ALLOWED_EXTENSION_IDS)

\* C25 witness: an extension outside the allowlist, admitted by its IP, is
\* told its ID (cut at the path of the Origin) and that it is not allowed
C25_Witness ==
    /\ stage = "done" /\ routed = "/extension-info"
    /\ req.origin = "chrome-extension://aaaabbbbccccddddeeeeffffgggghhhh/popup.html"
    /\ res.status = 200 /\ res.extensionId = "aaaabbbbccccddddeeeeffffgggghhhh"
    /\ res.isAllowed = FALSE

\* C28: the IP-allowlist strategy succeeds only if the client IP, the
\* X-Real-IP value or one of the addresses listed in X-Forwarded-For is equal
\* to an entry of ALLOWED_IPS.
C28_IPEquality ==
    (auth.ran /\ auth.isFromAllowedIP) => ResolvedIPAllowed(req)

\* some address listed in X-Forwarded-For begins with a trusted prefix
HasInternalPrefix(ff) ==
    \E a \in ListedAddresses(ff) : StartsWith(a, "10.") \/ StartsWith(a, "169.254.")

\* C29: the forwarded-for heuristic succeeds only if some address listed in
\* X-Forwarded-For begins with 10. or 169.254.
C29_ForwardedPrefix ==
    (auth.ran /\ auth.isFromGoogleCloud) => HasInternalPrefix(req.forwardedFor)

\* C30: for every admitted request authSource names a strategy that
\* succeeded: it is "Chrome Extension" only if the extension strategy
\* succeeded, an origin or referer only if that header matched
\* ALLOWED_ORIGINS, and an IP only if that IP is allowlisted.
C30_AuthSourceSucceeded ==
    auth.authSource # "" =>
        /\ auth.authSource = "Chrome Extension" => auth.isValidChromeExtension
        /\ auth.authSource = req.origin => auth.isValidOrigin
        /\ auth.authSource = req.referer => auth.isValidReferer
        /\ auth.authSource \in {req.clientIP, req.realIP}
              => auth.authSource \in ALLOWED_IPS

\* C32: a request that carries an X-Signature header is allowed by the
\* extension strategy only if verifyRequestSignature was called for it and
\* returned true; leaving out X-Timestamp or X-Nonce does not let an invalid
\* signature through that strategy.
C32_SignatureHeaderVerified ==
    (auth.ran /\ req.signature # "" /\ auth.isValidChromeExtension)
        => auth.verifyCalls = 1

(***************************************************************************)
(* Claims about two deployments.                                           *)
(***************************************************************************)

\* both deployments denied the request
BothDenied == \A d \in DeploymentIds : replies[d].at = "done" /\ replies[d].res.status = 403

\* C31: two configurations that differ in the HMAC secret, the extension
\* allowlist, the origin allowlist or the IP allowlist return identical bodies
\* for the same request when both deny it, and the body of a denial by
\* authenticateRequest is fixed by whether the Origin has the
\* chrome-extension:// prefix.
C31_DenialBodyConfigFree ==
    BothDenied =>
        /\ replies[1].res = replies[2].res
        /\ \A d \in DeploymentIds :
              replies[d].res.error = "Forbidden: Unauthorized access" =>
                  replies[d].res =
                      [EmptyBody EXCEPT
                          !.status = 403,
                          !.error = "Forbidden: Unauthorized access",
                          !.message = "This service only accepts requests from authorized sources.",
                          !.hint = IF StartsWith(req.origin, "chrome-extension://")
                                   THEN ExtensionHint ELSE OriginHint]

\* C31 witness: two deployments that differ in all four settings, one knowing
\* the extension and one not, both denied a request of that extension
C31_Witness ==
    /\ BothDenied
    /\ deployments[1].secret # deployments[2].secret
    /\ deployments[1].extensionIds # deployments[2].extensionIds
    /\ deployments[1].origins # deployments[2].origins
    /\ deployments[1].ips # deployments[2].ips
    /\ req.origin = "chrome-extension://ojgppiocgnfkdafnikkiliekbmmagome"
    /\ req.signature # ""
    /\ replies[1].res.hint = ExtensionHint

(***************************************************************************)
(* Claims about the /scrape handler and the shared browser session.        *)
(***************************************************************************)

\* puppeteer.launch invocations so far
LaunchCount == Cardinality({e \in RequestIds : engine[e] # "unused"})

\* no launch has failed and no engine has been lost
NoEngineLost == \A e \in RequestIds : engine[e] \in {"unused", "starting", "live"}

\* C1: requests that call getBrowser concurrently while no engine exists
\* cause exactly one launch and all receive the same handle.  With no launch
\* failed and no engine lost, every launch after the first is such a race.
C1_SingleLaunch ==
    NoEngineLost =>
        /\ LaunchCount <= 1
        /\ \A r1, r2 \in RequestIds :
              (browser[r1] # 0 /\ browser[r2] # 0) => browser[r1] = browser[r2]

\* C2: for every request that opened a page, page.close has been invoked on
\* it before the response is sent, on every exit path of the handler.
C2_PageClosedBeforeResponse ==
    \A r \in RequestIds :
        (status[r] # 0 /\ page[r] # "undefined") => closeCalls[r] >= 1

\* C3: a request whose url validateURL rejects never calls getBrowser, never
\* opens a page and never calls page.goto.
C3_RejectedTouchesNoBrowser ==
    \A r \in RequestIds :
        (pc[r] # "idle" /\ verdict[r] \notin {"", "Accepted"})
            => /\ engine[r] = "unused"
               /\ browser[r] = 0
               /\ page[r] = "undefined"
               /\ gotoCalls[r] = 0

\* C3 witness: the metadata URL was answered by the catch block while
\* another request holds an open page of the shared engine
C3_Witness ==
    \E r, q \in RequestIds :
        /\ url[r] = "http://169.254.169.254/" /\ status[r] = 500
        /\ page[q] = "open" /\ gotoCalls[q] = 1

\* C12: when page.evaluate throws after the page was opened, page.close has
\* been invoked on that page exactly once by the time the response is sent,
\* whether that close succeeds or fails, and never more than once before it.
C12_CloseOnceAfterEvaluateThrows ==
    \A r \in RequestIds :
        thrown[r] = "evaluate" =>
            /\ closeCalls[r] <= 1
            /\ status[r] # 0 => (closeCalls[r] = 1 /\ status[r] = 500)

\* C12 witness: evaluate threw on a connected engine's page and the close of
\* the catch block failed; the request was answered after one close call
C12_Witness ==
    \E r \in RequestIds :
        /\ thrown[r] = "evaluate" /\ status[r] = 500
        /\ page[r] = "open" /\ closeCalls[r] = 1

\* browser engines that are launched and not closed
LiveEngines == {e \in RequestIds : engine[e] = "live"}

\* C15: in every reachable state at most one browser engine is live, and the
\* handles held by requests are handles of that one engine.
C15_OneLiveEngine ==
    /\ Cardinality(LiveEngines) <= 1
    /\ \A r \in RequestIds : browser[r] \in LiveEngines => browser[r] = browserInstance

\* C19: a /scrape request whose url validateURL rejects is answered with a
\* status of the 400/403 class, never with 500.
C19_RejectedIsClientError ==
    \A r \in RequestIds :
        (status[r] # 0 /\ thrown[r] = "validateURL") => status[r] \in {400, 403}

\* the text contains "cloudflare" in some letter case
HasFingerprint(t) == Includes(ToLowerCase(t.s), "cloudflare")

\* C20: extracted text that contains "cloudflare" in any letter case is
\* answered with 406, whatever its length is (no engine call having failed).
C20_FingerprintAnyCase ==
    \A r \in RequestIds :
        (status[r] # 0 /\ thrown[r] = "" /\ HasFingerprint(text[r])) => status[r] = 406

\* the texts tried that hold no fingerprint in any letter case
PlainTexts == {"", "a", "hello"}

\* C21: for extracted text without the bot fingerprint, empty text is
\* rejected (500), text of length 1 to 9999 is rejected as too short (406)
\* and text of length 10000 or more is answered 200; the boundary is exactly
\* 10000.
C21_LengthBoundary ==
    \A r \in RequestIds :
        (status[r] # 0 /\ thrown[r] = "" /\ gotoCalls[r] = 1 /\ text[r].s \in PlainTexts)
            => status[r] =
                 (IF Len(text[r].s) + text[r].pad = 0 THEN 500
                  ELSE IF Len(text[r].s) + text[r].pad <= 9999 THEN 406
                  ELSE 200)

\* C21 witness: text of length 9999 was answered 406 and text of length
\* 10000 was answered 200
C21_Witness ==
    \E r, q \in RequestIds :
        /\ text[r] = [s |-> "hello", pad |-> 9994] /\ status[r] = 406
        /\ text[q] = [s |-> "hello", pad |-> 9995] /\ status[q] = 200

\* C22: a /scrape request whose body has no url is answered with 400 and
\* touches no browser resource: no validation, no getBrowser call, no page.
C22_MissingURL ==
    \A r \in RequestIds :
        (pc[r] # "idle" /\ url[r] = "")
            => /\ status[r] = 400 /\ pc[r] = "done"
               /\ verdict[r] = "" /\ thrown[r] = ""
               /\ engine[r] = "unused" /\ browser[r] = 0
               /\ page[r] = "undefined" /\ gotoCalls[r] = 0 /\ closeCalls[r] = 0

\* C22 witness: a request without url was answered 400 while another
\* request holds an open page of the shared engine
C22_Witness ==
    \E r, q \in RequestIds :
        /\ pc[r] = "done" /\ url[r] = "" /\ status[r] = 400
        /\ page[q] = "open" /\ engine[q] = "live"

\* C24: when puppeteer.launch throws, the request is answered with 500, no
\* page is opened, browserInstance keeps the value it had before the failed
\* launch, and a request that arrives after a failed launch has left
\* browserInstance null attempts a launch of its own.
C24_LaunchFailure ==
    [][\A r \in RequestIds :
          /\ (pc[r] = "launching" /\ engine'[r] = "failed")
                => /\ browserInstance' = browserInstance
                   /\ status'[r] = 500 /\ pc'[r] = "done"
                   /\ page'[r] = "undefined" /\ browser'[r] = 0
          /\ (/\ pc[r] = "idle" /\ verdict'[r] = "Accepted"
              /\ browserInstance = 0 /\ \E e \in RequestIds : engine[e] = "failed")
                => (engine'[r] = "starting" /\ pc'[r] = "launching")]_vars

\* C24 witness: the first launch failed and was answered 500 with no page;
\* the next request launched an engine of its own, which is live
C24_Witness ==
    /\ engine[1] = "failed" /\ status[1] = 500 /\ page[1] = "undefined"
    /\ engine[2] = "live" /\ browserInstance = 2 /\ browser[2] = 2

\* C26: getBrowser launches an engine if and only if browserInstance is null
\* or reports isConnected() = false; with a connected handle it returns that
\* handle and launches nothing; a launch that resolves stores the new handle
\* and returns it, so that calls after a detected disconnection get the
\* newly launched handle.
C26_LaunchIffNotConnected ==
    [][\A r \in RequestIds :
          /\ (pc[r] = "idle" /\ verdict'[r] = "Accepted")
                => IF (IF browserInstance = 0 THEN TRUE
                       ELSE engine[browserInstance] # "live")
                   THEN /\ engine'[r] = "starting" /\ browser'[r] = 0
                        /\ browserInstance' = browserInstance
                   ELSE /\ engine' = engine
                        /\ browser'[r] = browserInstance
                        /\ browserInstance' = browserInstance
          /\ (pc[r] = "launching" /\ engine'[r] = "live")
                => (browserInstance' = r /\ browser'[r] = r)]_vars

\* C26 witness: the first engine was found disconnected by the second
\* request, which launched a new engine and got the new handle
C26_Witness ==
    /\ engine[1] = "disconnected" /\ browser[1] = 1
    /\ engine[2] = "live" /\ browserInstance = 2 /\ browser[2] = 2

\* C34: when every engine call eventually returns or throws, every /scrape
\* request eventually sends exactly one response, never zero and never two;
\* a page.close that throws in the catch block does not prevent the 500
\* response for the original error.
C34_ExactlyOneResponse ==
    \A r \in RequestIds :
        /\ [](sent[r] <= 1 /\ (pc[r] = "done" <=> sent[r] = 1))
        /\ (pc[r] # "idle") ~> (sent[r] = 1)
        /\ (pc[r] = "catchClosing") ~> (sent[r] = 1 /\ status[r] = 500 /\ thrown[r] # "")

\* C34 witness: page.goto threw, page.close threw in the catch block and left
\* the page open, and the one response is the 500
C34_Witness ==
    /\ pc[1] = "done" /\ thrown[1] = "goto"
    /\ page[1] = "open" /\ closeCalls[1] = 1
    /\ status[1] = 500 /\ sent[1] = 1

(***************************************************************************)
(* Claims about the handlers that launch an engine per request.            *)
(***************************************************************************)

\* the launch of request r gave it an engine
HasEngine(r) == engine[r] \in {"live", "closed"}

\* C35: in /screenshot, /pdf and the per-request /scrape, browser.close has
\* been invoked on every engine a request launched before that request's
\* response is sent, on every exit path: navigation failure, rendering
\* failure and the 406 policy rejections included.
C35_EngineClosedBeforeResponse ==
    \A r \in RequestIds :
        (sent[r] > 0 /\ HasEngine(r)) => browserCloseCalls[r] > 0

(***************************************************************************)
(* Claims about gracefulShutdown.                                          *)
(***************************************************************************)

\* C13: across any sequence of termination signals browserInstance.close is
\* invoked at most once on an engine, and a shutdown that found a connected
\* session has invoked it exactly once.
C13_CloseInvokedOnce ==
    \A e \in RequestIds :
        /\ browserCloseCalls[e] <= 1
        /\ (\E s \in SignalIds : shutdown[s].target = e) => browserCloseCalls[e] = 1

\* C14: the process never exits leaving an engine that was launched, or is
\* being launched, without browserInstance.close having been invoked on it.
C14_NoEngineLeftAtExit ==
    exited =>
        \A e \in RequestIds :
            engine[e] \in {"starting", "live"} => browserCloseCalls[e] >= 1

\* gracefulShutdown has been called
ShutdownStarted == \E s \in SignalIds : shutdown[s].pc # "idle"

\* C27: once gracefulShutdown has started (also while it awaits
\* browserInstance.close), no getBrowser call by an in-flight or new request
\* launches a new engine.
C27_NoLaunchAfterShutdown ==
    [][ShutdownStarted =>
          \A e \in RequestIds : engine[e] = "unused" => engine'[e] = "unused"]_vars

====
